---- MODULE Spec2Model ----
(***************************************************************************)
(* Model of rst2pdf/directives/code_block.py: the code-block directive.    *)
(*                                                                         *)
(* Three parts of code_block_directive and DocutilsInterface are modelled, *)
(* each as its own specification over the same variables:                  *)
(*   SpecExtract  - the include branch: reading the file and applying the  *)
(*                  start-at, start-after, end-at, end-before options;     *)
(*   SpecClassify - DocutilsInterface.lex / join / __iter__;               *)
(*   SpecAnnotate - the line-number and highlight loop over the tokens.    *)
(* The pygments lexer is an external library: the token stream it returns  *)
(* is an input drawn from a bounded set.                                   *)
(*                                                                         *)
(* Text is a sequence of one-character strings; indexes named as in the    *)
(* Python source are 0-based, as there.                                    *)
(***************************************************************************)
EXTENDS Integers, Sequences, FiniteSets, TLC

VARIABLES
    pc,           \* position in the handler
    file,         \* text of the included file, as stored on disk
    options,      \* the four anchor options; None when not given
    source,       \* content as read (after .rstrip()), before any narrowing
    content,      \* the working text
    line_offset,  \* line_offset
    err,          \* the option named by the severe error raised, or "none"
    backend,      \* pygments could be imported
    language,     \* the directive's language argument
    lexer,        \* name of the lexer lex() obtained, "unset" before
    raw,          \* the token stream the lexer returns: <<ttype, value>> pairs
    ri,           \* number of raw tokens join has consumed
    last,         \* join's (lasttype, lastval), <<>> before the first next()
    yielded,      \* what __iter__ has yielded so far: <<class, value>> pairs
    raised,       \* the exception that left __iter__, or "none"
    tokens,       \* the classified stream the annotation loop iterates
    ti,           \* number of tokens the loop has consumed
    withln,       \* 'linenos' in options
    hl_lines,     \* hl_lines
    lineno,       \* lineno
    total_lines,  \* total_lines
    code_block    \* children appended to the literal_block, in order

vars == <<pc, file, options, source, content, line_offset, err, backend, language, lexer,
          raw, ri, last, yielded, raised, tokens, ti, withln, hl_lines, lineno,
          total_lines, code_block>>

extractVars == <<file, options, source, content, err>>
classifyVars == <<backend, language, lexer, raw, ri, last, yielded, raised>>
annotateVars == <<tokens, ti, withln, hl_lines, lineno, total_lines, code_block>>

---------------------------------------------------------------------------
(* Bounds *)

MaxLen == 3        \* longest included file, in characters
MaxRaw == 3        \* longest raw token stream
MaxTokens == 2     \* longest classified token stream
MaxOffset == 1     \* largest linenos_offset / line_offset
MaxNl == 2         \* most line feeds in the content handed to the annotator

---------------------------------------------------------------------------
(* Text *)

LF == "\n"
CR == "\r"
Letters == {"a", "b"}
Alphabet == Letters \cup {LF}
None == <<>>

RECURSIVE TextsOfLen(_)
TextsOfLen(n) ==
    IF n = 0 THEN {<<>>}
    ELSE {Append(t, c) : t \in TextsOfLen(n - 1), c \in Alphabet}

Texts(n) == UNION {TextsOfLen(k) : k \in 0..n}

\* A slice bound as Python normalises it: negative counts from the end,
\* and the result is clamped to 0..len(s)
Clamp(s, i) ==
    LET k == IF i < 0 THEN i + Len(s) ELSE i
    IN  IF k < 0 THEN 0 ELSE IF k > Len(s) THEN Len(s) ELSE k

\* s[i:j]
Slice(s, i, j) ==
    LET lo == Clamp(s, i)
        hi == Clamp(s, j)
    IN  IF lo >= hi THEN <<>> ELSE SubSeq(s, lo + 1, hi)

\* s[i:]
SliceFrom(s, i) == Slice(s, i, Len(s))

\* s[:j]
SliceTo(s, j) == Slice(s, 0, j)

\* s[i], 0-based
At(s, i) == s[i + 1]

IsSpace(c) == c \in {LF, CR, " ", "\t"}

\* str.rstrip()
RECURSIVE RStrip(_)
RStrip(s) ==
    IF s = <<>> THEN s
    ELSE IF IsSpace(s[Len(s)]) THEN RStrip(SubSeq(s, 1, Len(s) - 1))
    ELSE s

MatchesAt(s, t, i) == i + Len(t) <= Len(s) /\ Slice(s, i, i + Len(t)) = t

\* str.find: the lowest index where t occurs in s, -1 when it does not
Find(s, t) ==
    LET hits == {i \in 0..Len(s) : MatchesAt(s, t, i)}
    IN  IF hits = {} THEN -1 ELSE CHOOSE i \in hits : \A j \in hits : i <= j

\* str.count("\n")
RECURSIVE CountLF(_)
CountLF(s) ==
    IF s = <<>> THEN 0
    ELSE (IF Head(s) = LF THEN 1 ELSE 0) + CountLF(Tail(s))

\* len(s.splitlines()): lines end at "\n", "\r" or "\r\n"; a last line that
\* has no terminator counts, an empty rest after a terminator does not.
RECURSIVE SplitLinesLen(_)
SplitLinesLen(s) ==
    IF s = <<>> THEN 0
    ELSE LET ends == {i \in 1..Len(s) : s[i] \in {LF, CR}}
         IN  IF ends = {} THEN 1
             ELSE LET e == CHOOSE i \in ends : \A j \in ends : i <= j
                      skip == IF s[e] = CR /\ e < Len(s) /\ s[e + 1] = LF
                              THEN e + 1 ELSE e
                  IN  1 + SplitLinesLen(SubSeq(s, skip + 1, Len(s)))

\* value.split("\n")
RECURSIVE SplitLF(_)
SplitLF(s) ==
    LET ends == {i \in 1..Len(s) : s[i] = LF}
    IN  IF ends = {} THEN <<s>>
        ELSE LET e == CHOOSE i \in ends : \A j \in ends : i <= j
             IN  <<SubSeq(s, 1, e - 1)>> \o SplitLF(SubSeq(s, e + 1, Len(s)))

---------------------------------------------------------------------------
(* Span extraction: the include branch of code_block_directive *)

AnchorNames == <<"start-at", "start-after", "end-at", "end-before">>
AnchorTexts == {<<"a">>, <<"b">>, <<"a", "b">>}
AnchorValues == AnchorTexts \cup {None}

\* "if after_text:" - None and the empty string are both skipped
Given(text) == text # None

\* NotFound with the test off by one: a failed find (-1) passes as a match
NotFoundLax(index) == index < -1

\* "if after_index < 0:"
NotFound(index) == index < 0

\* for char in content[after_index:0:-1]: stop at a line break, else step back
RECURSIVE WalkBack(_, _)
WalkBack(text, index) ==
    IF index <= 0 THEN index
    ELSE IF At(text, index) = LF \/ At(text, index) = CR THEN index
    ELSE WalkBack(text, index - 1)

\* for char in content[after_index:]: stop at "\n", else step forward
RECURSIVE WalkForward(_, _)
WalkForward(text, index) ==
    IF index >= Len(text) THEN index
    ELSE IF At(text, index) = LF THEN index
    ELSE WalkForward(text, index + 1)

InitIdleExtract ==
    /\ file = <<>>
    /\ options = [n \in {AnchorNames[i] : i \in 1..4} |-> None]
    /\ source = <<>>
    /\ err = "none"

InitExtract ==
    /\ pc = "include"
    /\ file \in Texts(MaxLen)
    /\ options \in [{AnchorNames[i] : i \in 1..4} -> AnchorValues]
    /\ source = <<>>
    /\ content = <<>>
    /\ line_offset = 0
    /\ err = "none"

\* codecs.open(...).read().rstrip(), or u'' when the file cannot be read;
\* line_offset = 0; "if content:" skips all four options for empty content
ReadInclude ==
    /\ pc = "include"
    /\ \E readable \in BOOLEAN :
         LET text == IF readable THEN RStrip(file) ELSE <<>>
         IN  /\ content' = text
             /\ source' = text
             /\ pc' = IF text # <<>> THEN "start-at" ELSE "done"
    /\ line_offset' = 0
    /\ UNCHANGED <<file, options, err>>
    /\ UNCHANGED <<classifyVars, annotateVars>>

StartAt ==
    /\ pc = "start-at"
    /\ LET after_text == options["start-at"]
           found == Find(content, after_text)
           after_index == WalkBack(content, found)
           narrowed == SliceFrom(content, after_index)
       IN  IF ~Given(after_text)
           THEN /\ pc' = "start-after"
                /\ UNCHANGED <<content, line_offset, err>>
           ELSE IF NotFound(found)
           THEN /\ pc' = "error"
                /\ err' = "start-at"
                /\ UNCHANGED <<content, line_offset>>
           ELSE /\ content' = narrowed
                /\ line_offset' = SplitLinesLen(SliceTo(narrowed, after_index)) - 1
                /\ pc' = "start-after"
                /\ UNCHANGED err
    /\ UNCHANGED <<file, options, source>>
    /\ UNCHANGED <<classifyVars, annotateVars>>

StartAfter ==
    /\ pc = "start-after"
    /\ LET after_text == options["start-after"]
           found == Find(content, after_text)
           after_index == WalkForward(content, found + Len(after_text))
       IN  IF ~Given(after_text)
           THEN /\ pc' = "end-at"
                /\ UNCHANGED <<content, line_offset, err>>
           ELSE IF NotFound(found)
           THEN /\ pc' = "error"
                /\ err' = "start-after"
                /\ UNCHANGED <<content, line_offset>>
           ELSE /\ line_offset' = SplitLinesLen(SliceTo(content, after_index))
                /\ content' = SliceFrom(content, after_index)
                /\ pc' = "end-at"
                /\ UNCHANGED err
    /\ UNCHANGED <<file, options, source>>
    /\ UNCHANGED <<classifyVars, annotateVars>>

EndAt ==
    /\ pc = "end-at"
    /\ LET before_text == options["end-at"]
           before_index == Find(content, before_text)
       IN  IF ~Given(before_text)
           THEN /\ pc' = "end-before"
                /\ UNCHANGED <<content, err>>
           ELSE IF NotFound(before_index)
           THEN /\ pc' = "error"
                /\ err' = "end-at"
                /\ UNCHANGED content
           ELSE /\ content' = SliceTo(content, before_index + Len(before_text))
                /\ pc' = "end-before"
                /\ UNCHANGED err
    /\ UNCHANGED <<file, options, source, line_offset>>
    /\ UNCHANGED <<classifyVars, annotateVars>>

EndBefore ==
    /\ pc = "end-before"
    /\ LET before_text == options["end-before"]
           before_index == Find(content, before_text)
       IN  IF ~Given(before_text)
           THEN /\ pc' = "done"
                /\ UNCHANGED <<content, err>>
           ELSE IF NotFound(before_index)
           THEN /\ pc' = "error"
                /\ err' = "end-before"
                /\ UNCHANGED content
           ELSE /\ content' = SliceTo(content, before_index)
                /\ pc' = "done"
                /\ UNCHANGED err
    /\ UNCHANGED <<file, options, source, line_offset>>
    /\ UNCHANGED <<classifyVars, annotateVars>>

---------------------------------------------------------------------------
(* Token classification: DocutilsInterface *)

Languages == {"python", "nosuchlang", "none", "broken"}
Ttypes == {"Text", "Keyword"}
RawValues == {<<"a">>, <<LF>>}
RawTokens == {<<t, v>> : t \in Ttypes, v \in RawValues}

RECURSIVE StreamsOfLen(_, _)
StreamsOfLen(toks, n) ==
    IF n = 0 THEN {<<>>}
    ELSE {Append(s, t) : s \in StreamsOfLen(toks, n - 1), t \in toks}

Streams(toks, n) == UNION {StreamsOfLen(toks, k) : k \in 0..n}

\* "if self.language and str(self.language).lower() != 'none'", else 'text'
LexerName(lang) == IF lang # "" /\ lang # "none" THEN lang ELSE "text"

\* get_lexer_by_name: ClassNotFound (a ValueError) for a name that is not
\* registered; "broken" stands for a lexer whose loading fails with IOError
Lookup(name) ==
    CASE name = "nosuchlang" -> "ValueError"
      [] name = "broken" -> "IOError"
      [] OTHER -> "found"

\* _get_ttype_class
TtypeClass(ttype) == IF ttype = "Text" THEN "" ELSE "k"

\* "if ttype is lasttype:"
SameType(ttype, lasttype) == ttype = lasttype

InitIdleClassify ==
    /\ backend = TRUE
    /\ language = "none"
    /\ lexer = "unset"
    /\ raw = <<>>
    /\ ri = 0
    /\ last = <<>>
    /\ yielded = <<>>
    /\ raised = "none"

InitClassify ==
    /\ pc = "lex"
    /\ backend \in BOOLEAN
    /\ language \in Languages
    /\ lexer = "unset"
    /\ raw \in Streams(RawTokens, MaxRaw)
    /\ ri = 0
    /\ last = <<>>
    /\ yielded = <<>>
    /\ raised = "none"
    /\ content \in {<<>>, <<"a">>, <<"a", LF, "b">>}
    /\ line_offset = 0

\* __iter__ up to the first next() of join: self.lex() inside
\* "try ... except IOError".  Without pygments the names bound by the guarded
\* import do not exist, and the NameError is caught neither by lex's
\* "except ValueError" nor by __iter__'s "except IOError".
Lex ==
    /\ pc = "lex"
    /\ LET name == LexerName(language)
           outcome == Lookup(name)
       IN  IF ~backend
           THEN /\ raised' = "NameError"
                /\ pc' = "raised"
                /\ UNCHANGED <<lexer, yielded>>
           ELSE IF outcome = "found"
           THEN /\ lexer' = name
                /\ pc' = "join"
                /\ UNCHANGED <<raised, yielded>>
           ELSE IF outcome = "ValueError"
           THEN /\ lexer' = "text"
                /\ pc' = "join"
                /\ UNCHANGED <<raised, yielded>>
           ELSE /\ yielded' = <<<<"", content>>>>
                /\ pc' = "done"
                /\ UNCHANGED <<raised, lexer>>
    /\ UNCHANGED <<backend, language, raw, ri, last>>
    /\ UNCHANGED <<file, options, source, content, err, line_offset, annotateVars>>

\* join: tokens = iter(tokens); (lasttype, lastval) = next(tokens).
\* On an empty stream next() raises StopIteration inside the generator:
\* with PEP 479 in force (Python 3.7 and later) that leaves the generator as
\* a RuntimeError, before it the generator just ends.
JoinFirst ==
    /\ pc = "join"
    /\ IF raw = <<>>
       THEN /\ \E generator_stop \in BOOLEAN :
                 IF generator_stop
                 THEN raised' = "RuntimeError" /\ pc' = "raised"
                 ELSE raised' = raised /\ pc' = "done"
            /\ UNCHANGED <<last, ri>>
       ELSE /\ last' = raw[1]
            /\ ri' = 1
            /\ pc' = "joining"
            /\ UNCHANGED raised
    /\ UNCHANGED <<backend, language, lexer, raw, yielded>>
    /\ UNCHANGED <<file, options, source, content, err, line_offset, annotateVars>>

\* One turn of "for ttype, value in tokens:"; __iter__ yields
\* (_get_ttype_class(ttype), value) for what join yields
JoinNext ==
    /\ pc = "joining"
    /\ ri < Len(raw)
    /\ LET ttype == raw[ri + 1][1]
           value == raw[ri + 1][2]
       IN  IF SameType(ttype, last[1])
           THEN /\ last' = <<last[1], last[2] \o value>>
                /\ UNCHANGED yielded
           ELSE /\ yielded' = Append(yielded, <<TtypeClass(last[1]), last[2]>>)
                /\ last' = <<ttype, value>>
    /\ ri' = ri + 1
    /\ UNCHANGED <<pc, backend, language, lexer, raw, raised>>
    /\ UNCHANGED <<file, options, source, content, err, line_offset, annotateVars>>

\* The final "yield (lasttype, lastval)"
JoinLast ==
    /\ pc = "joining"
    /\ ri = Len(raw)
    /\ yielded' = Append(yielded, <<TtypeClass(last[1]), last[2]>>)
    /\ pc' = "done"
    /\ UNCHANGED <<backend, language, lexer, raw, ri, last, raised>>
    /\ UNCHANGED <<file, options, source, content, err, line_offset, annotateVars>>

---------------------------------------------------------------------------
(* Line annotation: the tail of code_block_directive *)

unstyled_tokens == {""}
Classes == {"", "k"}
TokenValues == {<<"a">>, <<LF>>, <<"a", LF, "a">>, <<LF, LF>>}
ClassifiedTokens == {<<c, v>> : c \in Classes, v \in TokenValues}
HighlightSets == {{}, {1}, {2}, {1, 3}}

\* str(n) for n >= 0
RECURSIVE Str(_)
Str(n) ==
    LET d == <<"0", "1", "2", "3", "4", "5", "6", "7", "8", "9">>
    IN  IF n < 10 THEN <<d[n + 1]>> ELSE Str(n \div 10) \o <<d[(n % 10) + 1]>>

RECURSIVE Spaces(_)
Spaces(n) == IF n <= 0 THEN <<>> ELSE <<" ">> \o Spaces(n - 1)

\* "%<width>d " % n
FormatNumber(width, n) == Spaces(width - Len(Str(n))) \o Str(n) \o <<" ">>

\* nodes.inline(text, text, classes=[cls]); ln is the number a line-number
\* marker was formatted from, 0 for any other node
Inline(text, cls) == [node |-> "inline", text |-> text, classes |-> cls, ln |-> 0]
TextNode(text) == [node |-> "Text", text |-> text, classes |-> "", ln |-> 0]
Marker(text, cls, n) == [node |-> "inline", text |-> text, classes |-> cls, ln |-> n]

\* "if hl_lines and lineno not in hl_lines"
Dimmed(hl, n) == hl # {} /\ n \notin hl

\* WithinTotal off by one: the piece one past total_lines is let through
WithinTotalLax(ln, total) == ln <= total + 1

\* "if ln <= total_lines:"
WithinTotal(ln, total) == ln <= total

\* LinenoAfterSplit counting pieces instead of line breaks
LinenoAfterSplitPieces(n, values) == n + Len(values)

\* "lineno += len(values) - 1"
LinenoAfterSplit(n, values) == n + Len(values) - 1

\* "lineno = lineno + value.count("\n")"
LinenoAfterValue(n, value) == n + CountLF(value)

\* "c = ''; if cls != '': c = 'pygments-diml'": the class of the first piece
FirstPieceClass(cls) == IF cls # "" THEN "pygments-diml" ELSE ""

\* "for chunk, ln in list(zip(values, linenos))[1:]": the nodes appended for
\* the pieces values[i..], piece i being on line n + i - 1
RECURSIVE LaterPieces(_, _, _, _, _, _)
LaterPieces(values, i, n, total, hl, width) ==
    IF i > Len(values) THEN <<>>
    ELSE LET ln == n + i - 1
             c == IF Dimmed(hl, ln) THEN "pygments-diml" ELSE ""
             linenumber_cls == IF Dimmed(hl, ln) THEN "pygments-diml" ELSE "linenumber"
             here == IF WithinTotal(ln, total)
                     THEN << Marker(<<LF>> \o FormatNumber(width, ln), linenumber_cls, ln),
                             Inline(values[i], c) >>
                     ELSE <<>>
         IN  here \o LaterPieces(values, i + 1, n, total, hl, width)

InitIdleAnnotate ==
    /\ tokens = <<>>
    /\ ti = 0
    /\ withln = FALSE
    /\ hl_lines = {}
    /\ lineno = 0
    /\ total_lines = 0
    /\ code_block = <<>>

InitAnnotate ==
    /\ pc = "setup"
    /\ tokens \in Streams(ClassifiedTokens, MaxTokens)
    /\ ti = 0
    /\ withln \in BOOLEAN
    /\ hl_lines \in HighlightSets
    /\ lineno = 0
    /\ total_lines = 0
    /\ code_block = <<>>
    /\ line_offset \in 0..MaxOffset
    /\ content \in {t \in Texts(MaxNl) : \A i \in 1..Len(t) : t[i] = LF}

\* Lines 251-273: "if 'linenos_offset' not in options: line_offset = 0",
\* lineno, total_lines and, with linenos, the first line-number marker
Setup ==
    /\ pc = "setup"
    /\ \E offset_given \in BOOLEAN :
         LET offset == IF offset_given THEN line_offset ELSE 0
             first == 1 + offset
             total == CountLF(content) + 1 + offset
             lnwidth == Len(Str(total))
             linenumber_cls == IF Dimmed(hl_lines, first) THEN "pygments-diml"
                               ELSE "linenumber"
         IN  /\ line_offset' = offset
             /\ lineno' = first
             /\ total_lines' = total
             /\ code_block' = IF withln
                              THEN <<Marker(FormatNumber(lnwidth, first), linenumber_cls, first)>>
                              ELSE <<>>
    /\ pc' = "annotate"
    /\ UNCHANGED <<tokens, ti, withln, hl_lines, content>>
    /\ UNCHANGED <<file, options, source, err, classifyVars>>

\* One turn of "for cls, value in DocutilsInterface(...)"
Annotate ==
    /\ pc = "annotate"
    /\ ti < Len(tokens)
    /\ LET value == tokens[ti + 1][2]
           cls == IF Dimmed(hl_lines, lineno) THEN "diml" ELSE tokens[ti + 1][1]
           values == SplitLF(value)
           lnwidth == Len(Str(total_lines))
       IN  IF withln /\ CountLF(value) > 0
           THEN /\ code_block' = code_block
                        \o <<Inline(values[1], FirstPieceClass(cls))>>
                        \o LaterPieces(values, 2, lineno, total_lines, hl_lines, lnwidth)
                /\ lineno' = LinenoAfterSplit(lineno, values)
           ELSE IF cls \in unstyled_tokens
           THEN /\ lineno' = LinenoAfterValue(lineno, value)
                /\ code_block' = Append(code_block, TextNode(value))
           ELSE /\ lineno' = LinenoAfterValue(lineno, value)
                /\ code_block' = Append(code_block, Inline(value, "pygments-" \o cls))
    /\ ti' = ti + 1
    /\ UNCHANGED <<pc, tokens, withln, hl_lines, total_lines, line_offset, content>>
    /\ UNCHANGED <<file, options, source, err, classifyVars>>

\* "return [code_block]"
Return ==
    /\ pc = "annotate"
    /\ ti = Len(tokens)
    /\ pc' = "returned"
    /\ UNCHANGED <<tokens, ti, withln, hl_lines, lineno, total_lines, code_block,
                   line_offset, content>>
    /\ UNCHANGED <<file, options, source, err, classifyVars>>

---------------------------------------------------------------------------
(* Specifications *)

NextExtract == ReadInclude \/ StartAt \/ StartAfter \/ EndAt \/ EndBefore

NextClassify == Lex \/ JoinFirst \/ JoinNext \/ JoinLast

NextAnnotate == Setup \/ Annotate \/ Return

InitE == InitExtract /\ InitIdleClassify /\ InitIdleAnnotate

InitC == InitClassify /\ InitIdleExtract /\ InitIdleAnnotate

InitA == InitAnnotate /\ InitIdleExtract /\ InitIdleClassify

SpecExtract == InitE /\ [][NextExtract]_vars

SpecClassify == InitC /\ [][NextClassify]_vars

SpecAnnotate == InitA /\ [][NextAnnotate]_vars

Init == InitE \/ InitC \/ InitA

Next == NextExtract \/ NextClassify \/ NextAnnotate

Spec == Init /\ [][Next]_vars

---------------------------------------------------------------------------
(* Properties of span extraction (SpecExtract) *)

Min(S) == CHOOSE x \in S : \A y \in S : x <= y
Max(S) == CHOOSE x \in S : \A y \in S : x >= y

\* The 0-based indexes at which t occurs in s
Occurrences(s, t) == {i \in 0..(Len(s) - Len(t)) : SubSeq(s, i + 1, i + Len(t)) = t}

\* s from 0-based index i to its end
Suffix(s, i) == SubSeq(s, i + 1, Len(s))

\* Index of the first character of the line that holds index i
LineStart(s, i) ==
    LET lfs == {j \in 0..(i - 1) : s[j + 1] = LF}
    IN  IF lfs = {} THEN 0 ELSE Max(lfs) + 1

\* Index of the first character of the line after the one that holds index i
\* (the length of s when that line is the last)
NextLineStart(s, i) ==
    LET lfs == {j \in i..(Len(s) - 1) : s[j + 1] = LF}
    IN  IF lfs = {} THEN Len(s) ELSE Min(lfs) + 1

OnlyStartAtEndAt ==
    /\ Given(options["start-at"])
    /\ Given(options["end-at"])
    /\ ~Given(options["start-after"])
    /\ ~Given(options["end-before"])

\* C1: with start-at = A and end-at = B, A and B each occurring exactly once
\* in the content and A before B, extraction ends with the span that runs
\* from the first character of A's line (the line break before it excluded)
\* to the last character of B's match.
C1_StartAtEndAtSpan ==
    LET A == options["start-at"]
        B == options["end-at"]
        ia == Min(Occurrences(source, A))
        ib == Min(Occurrences(source, B))
    IN  ( /\ pc \in {"done", "error"}
          /\ source # <<>>
          /\ OnlyStartAtEndAt
          /\ Cardinality(Occurrences(source, A)) = 1
          /\ Cardinality(Occurrences(source, B)) = 1
          /\ ia + Len(A) <= ib )
        => /\ pc = "done"
           /\ content = SubSeq(source, LineStart(source, ia) + 1, ib + Len(B))

\* C2: once a start anchor (start-at or start-after) has been found and
\* applied, line_offset is the number of line feeds in the discarded prefix
\* of the original content, wherever the anchor stands.  (A span left empty
\* has no first line and is not judged.)
C2_LineOffsetCountsSkippedLines ==
    ( /\ pc = "end-at"
      /\ content # <<>>
      /\ Given(options["start-at"]) # Given(options["start-after"]) )
    => /\ Len(content) <= Len(source)
       /\ line_offset = CountLF(SubSeq(source, 1, Len(source) - Len(content)))

\* C3: with start-after = A found, the span begins at the first character of
\* the line after the one on which A's match ends: the match, the rest of
\* its line and the line break ending that line are all excluded.
C3_StartAfterNextLine ==
    LET A == options["start-after"]
        stop == Min(Occurrences(source, A)) + Len(A)
    IN  ( /\ pc = "end-at"
          /\ Given(A)
          /\ ~Given(options["start-at"]) )
        => content = Suffix(source, NextLineStart(source, stop))

\* The anchor applied at position p of the handler
AnchorAt(p) == options[p]

IsAnchorStage(p) == \E i \in 1..4 : p = AnchorNames[i]

\* A step that applies an anchor which is given but absent from the working
\* text ends in the error that names this anchor
MissingAnchorStep ==
    ( /\ IsAnchorStage(pc)
      /\ Given(AnchorAt(pc))
      /\ Occurrences(content, AnchorAt(pc)) = {} )
    => /\ pc' = "error"
       /\ err' = pc

\* C4 (as amended): for content that is not empty after loading, an anchor
\* that is given and does not occur in the working text when it is applied
\* makes extraction fail with the error naming that anchor; nothing follows
\* the error, so no span is produced.  The anchors are skipped without being
\* applied only when the loaded content is empty.
C4_MissingAnchorFails ==
    [][ /\ pc # "error"
        /\ MissingAnchorStep
        /\ (pc = "include" /\ content' # <<>>) => pc' = "start-at"
      ]_vars

\* C4 (as claimed): the same for content of any length, the empty string
\* included: when the loaded content is empty, every given anchor is absent
\* from it, so extraction has to fail naming the first given anchor.
C4_MissingAnchorFailsAnyContent ==
    [][ /\ pc # "error"
        /\ MissingAnchorStep
        /\ ( /\ pc = "include"
             /\ content' = <<>>
             /\ \E i \in 1..4 : Given(options[AnchorNames[i]]) )
           => /\ pc' = "error"
              /\ err' = AnchorNames[Min({i \in 1..4 : Given(options[AnchorNames[i]])})]
      ]_vars

\* An anchor that occurs in the content as loaded but no longer in the text
\* narrowed by an earlier anchor has ended extraction with its error
C4_Witness ==
    /\ pc = "error"
    /\ err = "end-at"
    /\ Occurrences(source, options["end-at"]) # {}

---------------------------------------------------------------------------
(* Properties of classification (SpecClassify) *)

\* C8: iterating the classifier never raises; without a registered lexer
\* for the language the plain-text lexer is used; without pygments at all
\* exactly one token ("", whole span) is yielded.
C8_ClassifyNeverRaises ==
    /\ raised = "none"
    /\ (lexer # "unset" /\ Lookup(LexerName(language)) = "ValueError") => lexer = "text"
    /\ (pc = "done" /\ ~backend) => yielded = <<<<"", content>>>>

\* C9: join on an empty stream ends normally having yielded nothing; on a
\* one-token stream it yields exactly that token.
C9_JoinEmptyAndSingle ==
    (lexer # "unset" /\ pc \in {"done", "raised"})
    => /\ raw = <<>> => (pc = "done" /\ yielded = <<>>)
       /\ Len(raw) = 1 =>
            (pc = "done" /\ yielded = <<<<TtypeClass(raw[1][1]), raw[1][2]>>>>)

---------------------------------------------------------------------------
(* Properties of line annotation (SpecAnnotate) *)

\* Line breaks in the first n tokens of the stream
RECURSIVE LFsIn(_, _)
LFsIn(toks, n) == IF n = 0 THEN 0 ELSE LFsIn(toks, n - 1) + CountLF(toks[n][2])

StartLine == 1 + line_offset

Annotating == pc \in {"annotate", "returned"}

IsMarker(f) == f.ln > 0

\* The line a node of code_block lies on, with line numbers on: its own
\* number for a marker, else the number of the last marker before it
LineOfNode(nodes, i) == nodes[Max({j \in 1..i : IsMarker(nodes[j])})].ln

\* The numbers of the line-number markers, in output order
RECURSIVE MarkerNumbers(_)
MarkerNumbers(nodes) ==
    IF nodes = <<>> THEN <<>>
    ELSE (IF IsMarker(Head(nodes)) THEN <<Head(nodes).ln>> ELSE <<>>)
         \o MarkerNumbers(Tail(nodes))

\* C5: with line numbers on and a non-empty highlight set, the marker of a
\* line and every run on that line (the first piece of a split token
\* included) carry the dimmed class exactly when the line is not highlighted.
C5_EmphasisIffHighlighted ==
    (Annotating /\ withln /\ hl_lines # {})
    => \A i \in 1..Len(code_block) :
         (code_block[i].classes # "pygments-diml")
            <=> (LineOfNode(code_block, i) \in hl_lines)

\* C6: after each token, and so at the end of the stream, lineno is the start
\* line plus the number of line breaks in the tokens consumed so far; with
\* or without line numbers, styled or not, pieces suppressed or not.
C6_LinenoTracksLineBreaks ==
    Annotating => lineno = StartLine + LFsIn(tokens, ti)

\* The whole stream is consumed, line numbers are on, an unstyled token with
\* two line breaks was split and the count has run past total_lines
C6_Witness ==
    /\ pc = "returned"
    /\ withln
    /\ lineno > total_lines
    /\ \E i \in 1..Len(tokens) : tokens[i][1] = "" /\ CountLF(tokens[i][2]) = 2

\* C7: with line numbers on, the markers emitted so far are numbered
\* StartLine, StartLine + 1, ... up to the smaller of StartLine + k (k the
\* line breaks consumed) and total_lines, in that order.
C7_MarkerNumbersConsecutive ==
    (Annotating /\ withln)
    => LET top == IF StartLine + LFsIn(tokens, ti) <= total_lines
                  THEN StartLine + LFsIn(tokens, ti) ELSE total_lines
       IN  MarkerNumbers(code_block) = [i \in 1..(top - StartLine + 1) |-> StartLine + i - 1]

\* The stream ended past total_lines, so a marker was suppressed, and more
\* than one marker was emitted
C7_Witness ==
    /\ pc = "returned"
    /\ withln
    /\ StartLine + LFsIn(tokens, ti) > total_lines
    /\ Len(MarkerNumbers(code_block)) >= 2

\* C10: with line numbers on, every piece of a split token with a non-empty
\* class is a run with the class an unsplit token of that class gets on the
\* piece's line.
C10_SplitKeepsTypeClass ==
    [][ ( /\ pc = "annotate"
          /\ ti < Len(tokens)
          /\ withln
          /\ tokens[ti + 1][1] # ""
          /\ CountLF(tokens[ti + 1][2]) > 0 )
        => \A i \in (Len(code_block) + 1)..Len(code_block') :
             ~IsMarker(code_block'[i])
             => code_block'[i].classes =
                  (IF Dimmed(hl_lines, LineOfNode(code_block', i))
                   THEN "pygments-diml"
                   ELSE "pygments-" \o tokens[ti + 1][1])
      ]_vars

====
